---- MODULE Spec2Model ----
(***************************************************************************)
(* A model of gptbitcoin/oop/practicum/data_collection.py: the class       *)
(* DataCollection (fetch_asset_df, fetch_hash_rate, bitcoin_log_returns,   *)
(* merge_df, upload_to_snowflake) and the module-level run of line 139.    *)
(*                                                                         *)
(* Time.  An epoch value x counts ticks (the provider's seconds, scaled so *)
(* that a day has TicksPerDay of them).  A pandas Timestamp is a pair      *)
(* <<day, tick of day>>; a date string ('2014-12-31') is its day number.   *)
(* Numbers.  A float cell is a record: a rational n/d in lowest terms,     *)
(* +inf, -inf, NaN, or the logarithm ln(n/d) of a positive rational other  *)
(* than 1, kept symbolic.                                                  *)
(* Tables.  A DataFrame is [columns, index, rows]: the column labels in    *)
(* order, the index labels in order, and one sequence of cells per row.    *)
(***************************************************************************)
EXTENDS Integers, Sequences, FiniteSets, TLC

VARIABLES start, end, pc, btc_df, log_returns, sp500_df, response, hash_rate,
          merged_df, conn, writes, stdout, error, json_calls

vars == <<start, end, pc, btc_df, log_returns, sp500_df, response, hash_rate,
          merged_df, conn, writes, stdout, error, json_calls>>

\* ---------------------------------------------------------------- bounds
NumDays == 3
TicksPerDay == 2
MaxSamples == 2
MaxPrice == 2

Days == 0 .. (NumDays - 1)
Epochs == 0 .. (NumDays * TicksPerDay - 1)

\* ---------------------------------------------------------------- floats
NaN == [k |-> "nan", n |-> 0, d |-> 0]
PosInf == [k |-> "inf", n |-> 1, d |-> 0]
NegInf == [k |-> "inf", n |-> -1, d |-> 0]

Abs(i) == IF i < 0 THEN -i ELSE i

RECURSIVE Gcd(_, _)
Gcd(a, b) == IF b = 0 THEN a ELSE Gcd(b, a % b)

\* the float n/d (d # 0), in lowest terms with a positive denominator
Frac(n, d) ==
    LET g == Gcd(Abs(n), Abs(d))
        s == IF d < 0 THEN -1 ELSE 1
    IN  [k |-> "num", n |-> (s * n) \div g, d |-> (s * d) \div g]

Num(i) == Frac(i, 1)

Sign(v) == IF v.n < 0 THEN -1 ELSE IF v.n > 0 THEN 1 ELSE 0

\* a / b on float64 cells (numpy: no exception, IEEE-754 results)
Div(a, b) ==
    IF a.k = "nan" \/ b.k = "nan" THEN NaN
    ELSE IF a.k = "inf" /\ b.k = "inf" THEN NaN
    ELSE IF a.k = "inf" THEN (IF Sign(a) * Sign(b) < 0 THEN NegInf ELSE PosInf)
    ELSE IF b.k = "inf" THEN Num(0)
    ELSE IF b.n = 0
         THEN (IF a.n > 0 THEN PosInf ELSE IF a.n < 0 THEN NegInf ELSE NaN)
    ELSE Frac(a.n * b.d, a.d * b.n)

\* np.log on a float64 cell
Log(v) ==
    IF v.k = "nan" THEN NaN
    ELSE IF v.k = "inf" THEN (IF v.n > 0 THEN PosInf ELSE NaN)
    ELSE IF v.n < 0 THEN NaN
    ELSE IF v.n = 0 THEN NegInf
    ELSE IF v.n = v.d THEN Num(0)
    ELSE [k |-> "ln", n |-> v.n, d |-> v.d]

\* pandas isna: NaN is the missing marker; +-inf is not
IsNA(v) == v.k = "nan"

\* ------------------------------------------------------------ timestamps
\* pd.to_datetime(x, unit='s')
ToDatetimeEpoch(x) == <<x \div TicksPerDay, x % TicksPerDay>>

\* pd.to_datetime('YYYY-MM-DD'): midnight of that day
ToDatetimeDate(day) == <<day, 0>>

TsLt(a, b) == a[1] < b[1] \/ (a[1] = b[1] /\ a[2] < b[2])
TsGe(a, b) == ~TsLt(a, b)

\* Series.dt.date: the calendar date, time of day stripped
DtDate(ts) == ts[1]

\* ---------------------------------------------------------------- tables
Range(s) == {s[i] : i \in 1 .. Len(s)}

RECURSIVE SelectIdx(_, _, _)
\* the positions i of 1..n with keep[i], ascending
SelectIdx(keep, i, n) ==
    IF i > n THEN <<>>
    ELSE (IF keep[i] THEN <<i>> ELSE <<>>) \o SelectIdx(keep, i + 1, n)

\* df[mask]: the rows whose mask is true, in order
BoolIndex(df, keep) ==
    LET pos == SelectIdx(keep, 1, Len(df.index))
    IN  [columns |-> df.columns,
         index   |-> [i \in 1 .. Len(pos) |-> df.index[pos[i]]],
         rows    |-> [i \in 1 .. Len(pos) |-> df.rows[pos[i]]]]

\* the first position of label c in df.columns, 0 when absent
ColPos(df, c) ==
    IF c \in Range(df.columns)
    THEN CHOOSE j \in 1 .. Len(df.columns) :
             /\ df.columns[j] = c
             /\ \A h \in 1 .. (j - 1) : df.columns[h] # c
    ELSE 0

\* df[c] for a label that occurs once: the cells of the column, by row
Column(df, c) == [i \in 1 .. Len(df.index) |-> df.rows[i][ColPos(df, c)]]

\* df[c] = cells: overwrite the column when the label exists, else append it
SetColumn(df, c, cells) ==
    IF c \in Range(df.columns)
    THEN [df EXCEPT !.rows = [i \in 1 .. Len(df.index) |->
                                 [df.rows[i] EXCEPT ![ColPos(df, c)] = cells[i]]]]
    ELSE [df EXCEPT !.columns = Append(df.columns, c),
                    !.rows = [i \in 1 .. Len(df.index) |->
                                 Append(df.rows[i], cells[i])]]

\* the Python None: an unassigned name, an absent bound
None == [none |-> TRUE]
NoDate == -1
NoError == [kind |-> "none", arg |-> "", status |-> 0]

\* ------------------------------------------------- fetch_asset_df (25-41)
\* What yf.download hands back: a wide table whose column labels are tuples
\* of levels, <<field, ticker>> under a MultiIndex with a 'Ticker' level
\* (ticker_level), <<field>> otherwise.
\* lines 36-37: df.droplevel('Ticker', axis=1)
DropTickerLevel(dl) ==
    IF dl.ticker_level
    THEN [j \in 1 .. Len(dl.columns) |-> <<dl.columns[j][1]>>]
    ELSE dl.columns

\* line 40: f"{asset_name}_{col}", col a one-level label
PrefixColumn(asset_name, col) == asset_name \o "_" \o col[1]

fetch_asset_df(asset_name, dl) ==
    LET cols == DropTickerLevel(dl)
    IN  [columns |-> [j \in 1 .. Len(cols) |-> PrefixColumn(asset_name, cols[j])],
         index   |-> dl.index,
         rows    |-> dl.rows]

\* ------------------------------------------------ fetch_hash_rate (43-81)
\* A response of the metrics provider: status, whether the JSON body has the
\* 'values' member, the keys every sample carries (in order) and the samples.
ExtraCell == Num(99)

SampleCell(sample, key) ==
    IF key = "x" THEN Num(sample.x)
    ELSE IF key = "y" THEN sample.y
    ELSE ExtraCell

\* line 66: pd.DataFrame(data['values']); no sample, no column
ValuesFrame(resp) ==
    LET n == Len(resp.values)
        cols == IF n = 0 THEN <<>> ELSE resp.keys
    IN  [columns |-> cols,
         index   |-> [i \in 1 .. n |-> i - 1],
         rows    |-> [i \in 1 .. n |->
                         [j \in 1 .. Len(cols) |-> SampleCell(resp.values[i], cols[j])]]]

\* lines 67-69: Date from x, HashRate from y, Date becomes the index
IndexByDate(resp, df) ==
    LET withRate == SetColumn(df, "HashRate", Column(df, "y"))
    IN  [withRate EXCEPT !.index =
            [i \in 1 .. Len(df.index) |-> ToDatetimeEpoch(Column(df, "x")[i].n)]]

\* line 71: `if self.start:` / line 76: `if self.end:`
Provided(bound) == bound # NoDate

\* line 72: df[df.index >= pd.to_datetime(self.start)]
FilterStart(df, s) ==
    IF Provided(s)
    THEN BoolIndex(df, [i \in 1 .. Len(df.index) |->
                           TsGe(df.index[i], ToDatetimeDate(s))])
    ELSE df

FilterEndInclusive(df, e) ==
    IF Provided(e)
    THEN BoolIndex(df, [i \in 1 .. Len(df.index) |->
                           ~TsLt(ToDatetimeDate(e), df.index[i])])
    ELSE df

\* line 77: df[df.index < pd.to_datetime(self.end)]
FilterEnd(df, e) ==
    IF Provided(e)
    THEN BoolIndex(df, [i \in 1 .. Len(df.index) |->
                           TsLt(df.index[i], ToDatetimeDate(e))])
    ELSE df

\* lines 74, 79: what is printed for an absent bound
BoundPrints(s, e) ==
    (IF Provided(s) THEN <<>> ELSE << [msg |-> "No start date provided.", arg |-> "", n |-> 0] >>)
    \o (IF Provided(e) THEN <<>> ELSE << [msg |-> "No end date provided.", arg |-> "", n |-> 0] >>)

StatusFailsServerOnly(resp) == resp.status >= 500

\* line 63: the status test
StatusFails(resp) == resp.status # 200

\* The call from line 63 on, given the response of line 62:
\* [raised, error, df, out, json] where json counts the calls of
\* response.json() and out is what the call prints.
fetch_hash_rate(s, e, resp) ==
    IF StatusFails(resp)
    THEN [raised |-> TRUE, df |-> None, out |-> <<>>, json |-> 0,
          error |-> [kind |-> "Exception", arg |-> "API requested failed",
                     status |-> resp.status]]
    ELSE IF ~resp.has_values
    THEN [raised |-> TRUE, df |-> None, out |-> <<>>, json |-> 1,
          error |-> [kind |-> "KeyError", arg |-> "values", status |-> 0]]
    ELSE LET frame == ValuesFrame(resp) IN
         IF "x" \notin Range(frame.columns)
         THEN [raised |-> TRUE, df |-> None, out |-> <<>>, json |-> 1,
               error |-> [kind |-> "KeyError", arg |-> "x", status |-> 0]]
         ELSE IF "y" \notin Range(frame.columns)
         THEN [raised |-> TRUE, df |-> None, out |-> <<>>, json |-> 1,
               error |-> [kind |-> "KeyError", arg |-> "y", status |-> 0]]
         ELSE [raised |-> FALSE, error |-> NoError, json |-> 1,
               out |-> BoundPrints(s, e),
               df |-> FilterEnd(FilterStart(IndexByDate(resp, frame), s), e)]

\* -------------------------------------------- bitcoin_log_returns (84-104)
ShiftFromFirst(cells) ==
    [i \in 1 .. Len(cells) |-> IF i = 1 THEN NaN ELSE cells[1]]

\* Series.shift(1): every value one row down, the first row missing
Shift1(cells) ==
    [i \in 1 .. Len(cells) |-> IF i = 1 THEN NaN ELSE cells[i - 1]]

\* line 97: np.log(df[price_col] / df[price_col].shift(1))
LogReturnCells(cells) ==
    [i \in 1 .. Len(cells) |-> Log(Div(cells[i], Shift1(cells)[i]))]

\* Series.dropna(): the <<label, value>> pairs whose value is not missing
DropNa(index, cells) ==
    LET keep == [i \in 1 .. Len(cells) |-> ~IsNA(cells[i])]
        pos  == SelectIdx(keep, 1, Len(cells))
    IN  [i \in 1 .. Len(pos) |-> <<index[pos[i]], cells[pos[i]]>>]

\* line 96: the membership test
HasPriceCol(df, price_col) == price_col \in Range(df.columns)

ZeroColumn(df) == [i \in 1 .. Len(df.index) |-> Num(0)]

\* line 101: the scalar np.nan broadcast over every row
NanColumn(df) == [i \in 1 .. Len(df.index) |-> NaN]

\* The whole call: [df, clean, out]
bitcoin_log_returns(df, price_col) ==
    IF HasPriceCol(df, price_col)
    THEN LET cells == LogReturnCells(Column(df, price_col))
         IN  [df    |-> SetColumn(df, "BTC_LogReturns", cells),
              clean |-> DropNa(df.index, cells),
              out   |-> <<>>]
    ELSE [df    |-> SetColumn(df, "BTC_LogReturns", NanColumn(df)),
          clean |-> <<>>,
          out   |-> << [msg |-> "Warning: Column not found for calculating returns.",
                        arg |-> price_col, n |-> 0] >>]

\* ------------------------------------------------------ merge_df (106-117)
RECURSIVE SortTs(_)
\* a set of timestamps as an ascending sequence
SortTs(S) ==
    IF S = {} THEN <<>>
    ELSE LET m == CHOOSE a \in S : \A b \in S : ~TsLt(b, a)
         IN  <<m>> \o SortTs(S \ {m})

\* the index of an outer concat of DatetimeIndex-ed frames: the sorted union
UnionIndex(tables) ==
    SortTs(UNION {Range(tables[t].index) : t \in 1 .. Len(tables)})

RowAtZeroFill(df, ts) ==
    IF ts \in Range(df.index)
    THEN df.rows[CHOOSE i \in 1 .. Len(df.index) : df.index[i] = ts]
    ELSE [j \in 1 .. Len(df.columns) |-> Num(0)]

\* the cells table df contributes at label ts: its row, or missing markers
RowAt(df, ts) ==
    IF ts \in Range(df.index)
    THEN df.rows[CHOOSE i \in 1 .. Len(df.index) : df.index[i] = ts]
    ELSE [j \in 1 .. Len(df.columns) |-> NaN]

RECURSIVE Flatten(_)
Flatten(seqs) == IF seqs = <<>> THEN <<>> ELSE Head(seqs) \o Flatten(Tail(seqs))

\* the frames side by side over the index idx: every column of every frame,
\* in order, a repeated label kept as often as it occurs
ConcatFrames(tables, idx) ==
    [columns |-> Flatten([t \in 1 .. Len(tables) |-> tables[t].columns]),
     index   |-> idx,
     rows    |-> [i \in 1 .. Len(idx) |->
                     Flatten([t \in 1 .. Len(tables) |-> RowAt(tables[t], idx[i])])]]

\* the returns derived on the rows of the merged table instead
ConcatThenDerive(tables) ==
    LET c == ConcatFrames(tables, UnionIndex(tables))
    IN  IF "BTC-USD_Close" \in Range(c.columns)
        THEN SetColumn(c, "BTC_LogReturns", LogReturnCells(Column(c, "BTC-USD_Close")))
        ELSE c

RECURSIVE AssignColumns(_, _, _)
AssignColumns(acc, df, j) ==
    IF j > Len(df.columns) THEN acc
    ELSE AssignColumns(
             SetColumn(acc, df.columns[j],
                       [i \in 1 .. Len(acc.index) |-> RowAt(df, acc.index[i])[j]]),
             df, j + 1)

\* a merge that assigns column by column, a later table overwriting a label
ConcatOverwrite(tables) ==
    LET idx == UnionIndex(tables)
        empty == [columns |-> <<>>, index |-> idx,
                  rows |-> [i \in 1 .. Len(idx) |-> <<>>]]
    IN  AssignColumns(AssignColumns(AssignColumns(empty, tables[1], 1),
                                    tables[2], 1), tables[3], 1)

\* line 112: pd.concat(tables, axis=1), for frames whose own index is unique
ConcatAxis1(tables) == ConcatFrames(tables, UnionIndex(tables))

\* line 113: df.drop(labels, axis=1): every column bearing one of the labels
DropColumns(df, labels) ==
    LET keep == [j \in 1 .. Len(df.columns) |-> df.columns[j] \notin labels]
        pos  == SelectIdx(keep, 1, Len(df.columns))
    IN  [columns |-> [j \in 1 .. Len(pos) |-> df.columns[pos[j]]],
         index   |-> df.index,
         rows    |-> [i \in 1 .. Len(df.index) |->
                         [j \in 1 .. Len(pos) |-> df.rows[i][pos[j]]]]]

TsCell(ts) == [k |-> "ts", n |-> ts[1], d |-> ts[2]]
DateCell(day) == [k |-> "date", n |-> day, d |-> 0]

\* line 114: df.reset_index(): the index becomes the first column, 'Date'
ResetIndex(df) ==
    [columns |-> <<"Date">> \o df.columns,
     index   |-> [i \in 1 .. Len(df.index) |-> i - 1],
     rows    |-> [i \in 1 .. Len(df.index) |-> <<TsCell(df.index[i])>> \o df.rows[i]]]

\* line 115: merged_df['Date'] = merged_df['Date'].dt.date
StripTime(df) ==
    SetColumn(df, "Date",
              [i \in 1 .. Len(df.index) |->
                  DateCell(DtDate(<<Column(df, "Date")[i].n, Column(df, "Date")[i].d>>))])

\* lines 113-115 on the concatenated frame
FinishMerge(df) == StripTime(ResetIndex(DropColumns(df, {"x", "y"})))

\* --------------------------------------------------------- the providers
\* The answers the collaborators can give.  Price tables come back sorted by
\* date, one row per trading day at midnight; metric samples come back in
\* time order with distinct timestamps.
RECURSIVE SortInts(_)
SortInts(S) ==
    IF S = {} THEN <<>>
    ELSE LET m == CHOOSE a \in S : \A b \in S : a <= b
         IN  <<m>> \o SortInts(S \ {m})

FieldsWithClose == <<"Close", "Open">>
FieldsWithoutClose == <<"Open", "Volume">>

PriceCell(field, day, close) ==
    IF field = "Close" THEN Num(close[day]) ELSE Num(50 + day)

\* one download: the trading days it covers and the closing price of each
Download(asset, ticker_level, fields, days, close) ==
    LET idx == SortInts(days)
    IN  [raised |-> FALSE, ticker_level |-> ticker_level,
         columns |-> [j \in 1 .. Len(fields) |->
                         IF ticker_level THEN <<fields[j], asset>> ELSE <<fields[j]>>],
         index   |-> [i \in 1 .. Len(idx) |-> ToDatetimeDate(idx[i])],
         rows    |-> [i \in 1 .. Len(idx) |->
                         [j \in 1 .. Len(fields) |-> PriceCell(fields[j], idx[i], close)]]]

\* yf.download raising instead of returning
FailedDownload ==
    [raised |-> TRUE, ticker_level |-> FALSE, columns |-> <<>>, index |-> <<>>,
     rows |-> <<>>]

Downloads(asset, fieldChoices, dayChoices, closeChoices) ==
    {Download(asset, tl, f, days, close) :
        tl \in BOOLEAN, f \in fieldChoices, days \in dayChoices, close \in closeChoices}

\* BTC trades on any set of days; SPY misses at most one day (a holiday)
AnyDays == SUBSET Days
MarketDays == {D \in SUBSET Days : Cardinality(D) >= NumDays - 1}

\* every closing-price history over 0..MaxPrice / the one with close = day + 1
AnyClose == [Days -> 0 .. MaxPrice]
RisingClose == {[d \in Days |-> d + 1]}
SpyClose == {[d \in Days |-> d + 20]}

SampleSets == {S \in SUBSET Epochs : Cardinality(S) <= MaxSamples}

Samples(S) ==
    LET xs == SortInts(S)
    IN  [i \in 1 .. Len(xs) |-> [x |-> xs[i], y |-> Num(10 + xs[i])]]

Response(terr, status, hasv, keys, S) ==
    [transport_error |-> terr, status |-> status, has_values |-> hasv,
     keys |-> keys, values |-> Samples(S)]

OkResponses(keyChoices, sets) ==
    {Response(FALSE, 200, TRUE, k, S) : k \in keyChoices, S \in sets}

BadResponses ==
    {Response(TRUE, 0, FALSE, <<>>, {}),
     Response(FALSE, 404, FALSE, <<>>, {}),
     Response(FALSE, 500, TRUE, <<"x", "y">>, {0}),
     Response(FALSE, 200, FALSE, <<>>, {}),
     Response(FALSE, 200, TRUE, <<"x">>, {0}),
     Response(FALSE, 200, TRUE, <<"y">>, {0})}

\* ------------------------------------------------------------ the run
\* line 139: DataCollection(start, end); line 140 calls upload_to_snowflake,
\* which calls merge_df first (line 120).
StartChoices == {NoDate, 1}
EndChoices == {NoDate, NumDays - 1}

Init ==
    /\ start \in StartChoices
    /\ end \in EndChoices
    /\ pc = "fetch_btc"
    /\ btc_df = None
    /\ log_returns = None
    /\ sp500_df = None
    /\ response = None
    /\ hash_rate = None
    /\ merged_df = None
    /\ conn = "none"
    /\ writes = 0
    /\ stdout = <<>>
    /\ error = NoError
    /\ json_calls = 0

RaiseSwallowed(err) ==
    /\ pc' = "connect"
    /\ error' = err
    /\ btc_df' = None
    /\ log_returns' = None
    /\ sp500_df' = None
    /\ response' = None
    /\ hash_rate' = None
    /\ merged_df' = None

\* An exception nobody catches: every frame is unwound, its locals are gone,
\* and the run ends with the error.  Nothing releases the connection.
Raise(err) ==
    /\ pc' = "raised"
    /\ error' = err
    /\ btc_df' = None
    /\ log_returns' = None
    /\ sp500_df' = None
    /\ response' = None
    /\ hash_rate' = None
    /\ merged_df' = None

DownloadError(asset) == [kind |-> "DownloadError", arg |-> asset, status |-> 0]

\* line 107: btc_df = self.fetch_asset_df('BTC-USD')
FetchBtc(dl) ==
    /\ pc = "fetch_btc"
    /\ IF dl.raised
       THEN Raise(DownloadError("BTC-USD"))
       ELSE /\ btc_df' = fetch_asset_df("BTC-USD", dl)
            /\ pc' = "log_returns"
            /\ UNCHANGED <<log_returns, sp500_df, response, hash_rate, merged_df, error>>
    /\ UNCHANGED <<start, end, conn, writes, stdout, json_calls>>

\* line 108: btc_df, log_returns = self.bitcoin_log_returns(btc_df)
LogReturns ==
    /\ pc = "log_returns"
    /\ LET r == bitcoin_log_returns(btc_df, "BTC-USD_Close")
       IN  /\ btc_df' = r.df
           /\ log_returns' = r.clean
           /\ stdout' = stdout \o r.out
    /\ pc' = "fetch_spy"
    /\ UNCHANGED <<start, end, sp500_df, response, hash_rate, merged_df, conn,
                   writes, error, json_calls>>

\* line 109: sp500_df = self.fetch_asset_df('SPY')
FetchSpy(dl) ==
    /\ pc = "fetch_spy"
    /\ IF dl.raised
       THEN Raise(DownloadError("SPY"))
       ELSE /\ sp500_df' = fetch_asset_df("SPY", dl)
            /\ pc' = "fetch_hash"
            /\ UNCHANGED <<btc_df, log_returns, response, hash_rate, merged_df, error>>
    /\ UNCHANGED <<start, end, conn, writes, stdout, json_calls>>

\* line 110 calls fetch_hash_rate; line 62: response = requests.get(url, ...)
RequestsGet(resp) ==
    /\ pc = "fetch_hash"
    /\ IF resp.transport_error
       THEN Raise([kind |-> "ConnectionError", arg |-> "requests.get", status |-> 0])
       ELSE /\ response' = resp
            /\ pc' = "hash_response"
            /\ UNCHANGED <<btc_df, log_returns, sp500_df, hash_rate, merged_df, error>>
    /\ UNCHANGED <<start, end, conn, writes, stdout, json_calls>>

\* lines 63-81, and line 110: hash_rate = the table returned
FetchHashRate ==
    /\ pc = "hash_response"
    /\ LET r == fetch_hash_rate(start, end, response)
       IN  /\ json_calls' = json_calls + r.json
           /\ stdout' = stdout \o r.out
           /\ IF r.raised
              THEN Raise(r.error)
              ELSE /\ hash_rate' = r.df
                   /\ response' = None
                   /\ pc' = "concat"
                   /\ UNCHANGED <<btc_df, log_returns, sp500_df, merged_df, error>>
    /\ UNCHANGED <<start, end, conn, writes>>

\* line 112: merged_df = pd.concat([btc_df, sp500_df, hash_rate], axis=1)
Concat ==
    /\ pc = "concat"
    /\ merged_df' = ConcatAxis1(<<btc_df, sp500_df, hash_rate>>)
    /\ pc' = "finish_merge"
    /\ UNCHANGED <<start, end, btc_df, log_returns, sp500_df, response, hash_rate,
                   conn, writes, stdout, error, json_calls>>

\* lines 113-115: drop x and y, reset the index, strip the time of day
FinishMergeStep ==
    /\ pc = "finish_merge"
    /\ IF {"x", "y"} \subseteq Range(merged_df.columns)
       THEN /\ merged_df' = FinishMerge(merged_df)
            /\ pc' = "merge_return"
            /\ UNCHANGED <<btc_df, log_returns, sp500_df, response, hash_rate, error>>
       ELSE Raise([kind |-> "KeyError", arg |-> "x, y", status |-> 0])
    /\ UNCHANGED <<start, end, conn, writes, stdout, json_calls>>

\* lines 117 and 120: merge_df returns; only merged_df lives on
MergeReturn ==
    /\ pc = "merge_return"
    /\ btc_df' = None
    /\ log_returns' = None
    /\ sp500_df' = None
    /\ hash_rate' = None
    /\ pc' = "connect"
    /\ UNCHANGED <<start, end, response, merged_df, conn, writes, stdout, error,
                   json_calls>>

\* lines 121-127: conn = connect(...)
Connect(ok) ==
    /\ pc = "connect"
    /\ IF ok
       THEN /\ conn' = "open"
            /\ pc' = "write"
            /\ UNCHANGED <<btc_df, log_returns, sp500_df, response, hash_rate,
                           merged_df, error>>
       ELSE /\ Raise([kind |-> "DatabaseError", arg |-> "connect", status |-> 0])
            /\ UNCHANGED conn
    /\ UNCHANGED <<start, end, writes, stdout, json_calls>>

\* lines 129-136: write_pandas(conn, merged_df, ...), the status line, return
WritePandas(outcome) ==
    /\ pc = "write"
    /\ writes' = writes + 1
    /\ IF outcome = "raise"
       THEN /\ Raise([kind |-> "ProgrammingError", arg |-> "write_pandas", status |-> 0])
            /\ UNCHANGED stdout
       ELSE /\ stdout' = Append(stdout,
                            [msg |-> "Upload status",
                             arg |-> IF outcome = "ok" THEN "True" ELSE "False",
                             n   |-> IF outcome = "ok" THEN Len(merged_df.rows) ELSE 0])
            /\ pc' = "done"
            /\ merged_df' = None
            /\ UNCHANGED <<btc_df, log_returns, sp500_df, response, hash_rate, error>>
    /\ UNCHANGED <<start, end, conn, json_calls>>

WriteOutcomes == {"ok", "not_ok", "raise"}

\* one step of the run, the collaborators answering from the given sets
Step(btcDownloads, spyDownloads, responses) ==
    \/ \E dl \in btcDownloads : FetchBtc(dl)
    \/ LogReturns
    \/ \E dl \in spyDownloads : FetchSpy(dl)
    \/ \E resp \in responses : RequestsGet(resp)
    \/ FetchHashRate
    \/ Concat
    \/ FinishMergeStep
    \/ MergeReturn
    \/ \E ok \in BOOLEAN : Connect(ok)
    \/ \E outcome \in WriteOutcomes : WritePandas(outcome)

\* Spec: every index of the three sources varies; the closing prices are
\* fixed and the metric samples carry x and y only.
BtcDownloads ==
    Downloads("BTC-USD", {FieldsWithClose, FieldsWithoutClose}, AnyDays, RisingClose)
        \cup {FailedDownload}
SpyDownloads ==
    Downloads("SPY", {FieldsWithClose}, MarketDays, SpyClose) \cup {FailedDownload}
Responses == OkResponses({<<"x", "y">>}, SampleSets) \cup BadResponses

Next == Step(BtcDownloads, SpyDownloads, Responses)

Spec == Init /\ [][Next]_vars

\* SpecReturns: every closing-price history of BTC; SPY covers every day and
\* the metric answers with one sample or none.
BtcPriceDownloads ==
    Downloads("BTC-USD", {FieldsWithClose, FieldsWithoutClose}, AnyDays, AnyClose)
        \cup {FailedDownload}
SpyFullDownloads ==
    Downloads("SPY", {FieldsWithClose}, {Days}, SpyClose) \cup {FailedDownload}
FewResponses ==
    OkResponses({<<"x", "y">>}, {S \in SampleSets : Cardinality(S) <= 1})
        \cup BadResponses

NextReturns == Step(BtcPriceDownloads, SpyFullDownloads, FewResponses)

SpecReturns == Init /\ [][NextReturns]_vars

\* SpecKeys: the metric samples may carry a further member besides x and y,
\* named like a column of a price table.
BtcCloseDownloads ==
    Downloads("BTC-USD", {FieldsWithClose}, AnyDays, RisingClose) \cup {FailedDownload}
KeyResponses ==
    OkResponses({<<"x", "y">>, <<"x", "y", "SPY_Close">>}, SampleSets)
        \cup BadResponses

NextKeys == Step(BtcCloseDownloads, SpyDownloads, KeyResponses)

SpecKeys == Init /\ [][NextKeys]_vars

\* ============================================================ properties
PriceCol == "BTC-USD_Close"
ReturnCol == "BTC_LogReturns"

\* the states in which merge_df holds btc_df with its derived column
ReturnsDerived ==
    pc \in {"fetch_spy", "fetch_hash", "concat", "finish_merge", "merge_return"}

\* r is ln(a / b) for two prices a, b >= 0 held as whole floats: the log of
\* the ratio when both are positive, -inf for 0/b, +inf for a/0, NaN for 0/0
IsLogOfRatio(r, a, b) ==
    IF a.n > 0 /\ b.n > 0
    THEN IF a.n = b.n
         THEN r = [k |-> "num", n |-> 0, d |-> 1]
         ELSE r.k = "ln" /\ r.n > 0 /\ r.d > 0 /\ r.n * b.n = r.d * a.n
    ELSE IF a.n = 0 /\ b.n > 0 THEN r = [k |-> "inf", n |-> -1, d |-> 0]
    ELSE IF a.n > 0 /\ b.n = 0 THEN r = [k |-> "inf", n |-> 1, d |-> 0]
    ELSE r.k = "nan"

\* C3: on a table without the price column bitcoin_log_returns does not raise:
\* the run goes on to the next fetch, the derived column is there and missing
\* at every row, the clean series is empty and a warning naming the column is
\* printed.
C3_MissingColumnRecovered ==
    [][(pc = "log_returns" /\ PriceCol \notin Range(btc_df.columns))
        => /\ pc' = "fetch_spy"
           /\ error' = NoError
           /\ btc_df'.index = btc_df.index
           /\ ReturnCol \in Range(btc_df'.columns)
           /\ \A i \in 1 .. Len(btc_df'.index) : Column(btc_df', ReturnCol)[i].k = "nan"
           /\ log_returns' = <<>>
           /\ Len(stdout') = Len(stdout) + 1
           /\ stdout'[Len(stdout')].arg = PriceCol]_vars

C3_Witness ==
    /\ pc = "fetch_spy"
    /\ PriceCol \notin Range(btc_df.columns)
    /\ Len(btc_df.index) >= 2
    /\ log_returns = <<>>

\* C4: with the price column p[1..n] present, the derived column is missing at
\* the first row and ln(p[t]/p[t-1]) at every later row, and the clean series
\* is the derived column without its missing entries, in index order.
C4_LogReturnsDerived ==
    (ReturnsDerived /\ PriceCol \in Range(btc_df.columns)) =>
        LET p == Column(btc_df, PriceCol)
            r == Column(btc_df, ReturnCol)
            n == Len(btc_df.index)
            kept == {t \in 1 .. n : r[t].k # "nan"}
        IN  /\ n >= 1 => r[1].k = "nan"
            /\ \A t \in 2 .. n : IsLogOfRatio(r[t], p[t], p[t - 1])
            /\ Len(log_returns) = Cardinality(kept)
            /\ \A i \in 1 .. Len(log_returns) :
                   \E t \in kept : log_returns[i] = <<btc_df.index[t], r[t]>>
            /\ \A i, j \in 1 .. Len(log_returns) :
                   i < j => log_returns[i][1][1] < log_returns[j][1][1]

C4_Witness ==
    /\ ReturnsDerived
    /\ PriceCol \in Range(btc_df.columns)
    /\ Len(btc_df.index) = 3
    /\ Column(btc_df, ReturnCol)[2].k = "ln"
    /\ Column(btc_df, ReturnCol)[3].k = "inf"
    /\ Len(log_returns) = 2

\* the float cell holding the whole number i
Whole(i) == [k |-> "num", n |-> i, d |-> 1]

\* C1: with start and end both given and start < end, every row fetch_hash_rate
\* returns has a date d with start <= d < end, and every sample of the provider
\* inside that range is returned, with its x and its y; nothing else is.
C1_RangeFiltered ==
    [][(pc = "hash_response" /\ pc' = "concat"
            /\ Provided(start) /\ Provided(end) /\ start < end)
        => LET n == Len(hash_rate'.index)
               InRange(x) == start * TicksPerDay <= x /\ x < end * TicksPerDay
               kept == {i \in 1 .. Len(response.values) : InRange(response.values[i].x)}
           IN  /\ \A i \in 1 .. n :
                      start <= hash_rate'.index[i][1] /\ hash_rate'.index[i][1] < end
               /\ n = Cardinality(kept)
               /\ \A h \in kept :
                      \E i \in 1 .. n :
                          /\ hash_rate'.index[i][1] * TicksPerDay + hash_rate'.index[i][2]
                                 = response.values[h].x
                          /\ Column(hash_rate', "x")[i] = Whole(response.values[h].x)
                          /\ Column(hash_rate', "HashRate")[i] = response.values[h].y]_vars

C1_Witness ==
    /\ pc = "concat"
    /\ Provided(start) /\ Provided(end) /\ start < end
    /\ Len(hash_rate.index) = 2
    /\ hash_rate.index[1] = <<start, 0>>
    /\ hash_rate.index[2][2] > 0

\* C2: a response with a status other than 200 makes fetch_hash_rate raise an
\* error carrying that status; no table is returned and the body is not parsed.
C2_NonSuccessRaises ==
    [][(pc = "hash_response" /\ response.status # 200)
        => /\ pc' = "raised"
           /\ error'.kind = "Exception"
           /\ error'.status = response.status
           /\ hash_rate' = None
           /\ merged_df' = None
           /\ json_calls' = json_calls]_vars

C2_Witness ==
    /\ pc = "raised"
    /\ error.kind = "Exception"
    /\ error.status = 404
    /\ json_calls = 0

\* the three tables merge_df concatenates, in its order
Inputs == <<btc_df, sp500_df, hash_rate>>
InputLabels == UNION {Range(Inputs[t].index) : t \in 1 .. 3}

\* C5: the concatenated table has exactly the dates of the three input tables,
\* each once; at every date a column holds its source table's value when that
\* table has the date and the missing marker when it has not.  The same dates,
\* as calendar days, are the Date column merge_df returns.
C5_OuterJoinComplete ==
    /\ pc = "finish_merge" =>
        /\ Range(merged_df.index) = InputLabels
        /\ Len(merged_df.index) = Cardinality(InputLabels)
        /\ \A i \in 1 .. Len(merged_df.index) : \A t \in 1 .. 3 :
               \A j \in 1 .. Len(Inputs[t].columns) :
                   LET cell == Column(merged_df, Inputs[t].columns[j])[i]
                       at == {h \in 1 .. Len(Inputs[t].index) :
                                 Inputs[t].index[h] = merged_df.index[i]}
                   IN  IF at = {} THEN cell.k = "nan"
                       ELSE \A h \in at : cell = Inputs[t].rows[h][j]
    /\ pc = "merge_return" =>
        {Column(merged_df, "Date")[i].n : i \in 1 .. Len(merged_df.index)}
            = {ts[1] : ts \in InputLabels}

C5_Witness ==
    /\ pc = "finish_merge"
    /\ \E ts \in Range(btc_df.index) :
           ts \notin Range(sp500_df.index) \cup Range(hash_rate.index)
    /\ \E ts \in Range(sp500_df.index) :
           ts \notin Range(btc_df.index) \cup Range(hash_rate.index)
    /\ \E ts \in Range(hash_rate.index) :
           ts \notin Range(btc_df.index) \cup Range(sp500_df.index)
    /\ \E ts \in Range(hash_rate.index) : ts \in Range(btc_df.index)

\* C9: the returns belong to the price series, not to the merged rows: at a
\* price date that is not the first, the merged return is ln of the price over
\* the price of the preceding price date; at the first price date it is
\* missing; at a date no price row has, price and return are both missing.
C9_ReturnsFollowPriceDates ==
    /\ (pc = "finish_merge" /\ PriceCol \in Range(btc_df.columns)) =>
        LET p == Column(btc_df, PriceCol)
        IN  \A i \in 1 .. Len(merged_df.index) :
                LET price == Column(merged_df, PriceCol)[i]
                    ret == Column(merged_df, ReturnCol)[i]
                    at == {h \in 1 .. Len(btc_df.index) :
                              btc_df.index[h] = merged_df.index[i]}
                IN  IF at = {} THEN price.k = "nan" /\ ret.k = "nan"
                    ELSE \A h \in at :
                             /\ price = p[h]
                             /\ IF h = 1 THEN ret.k = "nan"
                                ELSE IsLogOfRatio(ret, p[h], p[h - 1])
    /\ (pc = "merge_return" /\ PriceCol \in Range(btc_df.columns)) =>
        LET p == Column(btc_df, PriceCol)
            date == Column(merged_df, "Date")
            price == Column(merged_df, PriceCol)
            ret == Column(merged_df, ReturnCol)
            rows == 1 .. Len(merged_df.index)
        IN  /\ \A h \in 1 .. Len(btc_df.index) :
                   \E i \in rows :
                       /\ date[i].n = btc_df.index[h][1]
                       /\ price[i] = p[h]
                       /\ IF h = 1 THEN ret[i].k = "nan"
                          ELSE IsLogOfRatio(ret[i], p[h], p[h - 1])
            /\ \A i \in rows :
                   (\A h \in 1 .. Len(btc_df.index) : btc_df.index[h][1] # date[i].n)
                       => price[i].k = "nan" /\ ret[i].k = "nan"

\* prices on day 0 and day 2 only, another source with a sample on day 1
C9_Witness ==
    /\ pc = "merge_return"
    /\ PriceCol \in Range(btc_df.columns)
    /\ btc_df.index = << <<0, 0>>, <<2, 0>> >>
    /\ Len(merged_df.index) = 3
    /\ Column(merged_df, "Date")[2].n = 1
    /\ Column(merged_df, PriceCol)[2].k = "nan"
    /\ Column(merged_df, ReturnCol)[3].k = "ln"

FetchErrors == {"DownloadError", "ConnectionError", "Exception", "KeyError"}

\* C7: a failed fetch ends the run: no merged table, no connection, no write.
\* The connection is opened only after merge_df has returned, which it does
\* only after the three fetches, the derivation and the merge; the write
\* happens only on that connection; a run that raised does nothing more.
C7_FetchFailureAborts ==
    [][/\ error'.kind \in FetchErrors =>
           /\ pc' = "raised"
           /\ merged_df' = None
           /\ conn' = "none"
           /\ writes' = 0
       /\ pc = "raised" => pc' = "raised"
       /\ writes' # writes => pc = "write" /\ conn = "open" /\ merged_df # None
       /\ conn' # conn => pc = "connect" /\ merged_df # None
       /\ pc' = "connect" => pc = "merge_return"
       /\ pc' = "merge_return" => pc = "finish_merge"
       /\ pc' = "concat" => pc = "hash_response" /\ response.status = 200
       /\ pc' = "finish_merge" =>
           /\ pc = "concat"
           /\ btc_df # None /\ sp500_df # None /\ hash_rate # None
           /\ ReturnCol \in Range(btc_df.columns)]_vars

C7_Witness ==
    /\ pc = "raised"
    /\ error.kind = "Exception"
    /\ error.status = 500
    /\ conn = "none"
    /\ writes = 0
    /\ merged_df = None

\* C8: a run that acquired the connection has released it when it ends,
\* whether the write succeeded, reported failure or raised.
C8_ConnectionReleased == pc \in {"done", "raised"} => conn # "open"

\* C10: the Date column merge_df returns is ascending with every calendar date
\* at most once.
C10_DatesUniqueAscending ==
    pc = "merge_return" =>
        \A i, j \in 1 .. Len(merged_df.index) :
            i < j => Column(merged_df, "Date")[i].n < Column(merged_df, "Date")[j].n

Count(seq, x) == Cardinality({i \in 1 .. Len(seq) : seq[i] = x})

====
